---------------------------- MODULE Spec2Model ----------------------------
(***************************************************************************)
(* Verification model of the AI Database Analyst repository:               *)
(*   - the POST /api/query orchestrator (server.js), the generation and    *)
(*     summarisation retry loops (ai.js, both copies kept in the           *)
(*     repository), the pooled executor (db.js);                           *)
(*   - the SQL shape validator isValidSqlQuery (server.js);                *)
(*   - the Excel -> Postgres loader (load_excel.mjs) against schema.sql.   *)
(* JavaScript strings are TLA+ strings; a character is a string of         *)
(* length 1 obtained with SubSeq.                                          *)
(***************************************************************************)
EXTENDS Integers, Sequences, FiniteSets, TLC

VARIABLES
    aiModule,   \* which ai.js the server's require("./ai") resolves to
    req,        \* per request: the locals of the app.post("/api/query") task
    hist,       \* per request: what was called, in which order (observation only)
    inUse,      \* pg Pool: the connections currently checked out
    facts,      \* fact_session: the sequence of rows
    dims,       \* the four dimension tables: name -> surrogate id
    etl,        \* the loader's locals: run, position in the sheet, counters
    sheet,      \* the rows of the input sheet
    vIn,        \* function harness: the value handed to isValidSqlQuery, pct
                \* or normalizePstDate
    vOut        \* function harness: what the function returned

vars == <<aiModule, req, hist, inUse, facts, dims, etl, sheet, vIn, vOut>>

(***************************************************************************)
(* Bounds of the model.                                                    *)
(***************************************************************************)
NumReqs == 2
PoolMax == 1
MaxRows == 1
MaxFrags == 4
MaxPct == 150

(***************************************************************************)
(* JavaScript string primitives.                                           *)
(***************************************************************************)
CharAt(s, i) == SubSeq(s, i, i)

LowerAlphabet == "abcdefghijklmnopqrstuvwxyz"
UpperAlphabet == "ABCDEFGHIJKLMNOPQRSTUVWXYZ"
DigitAlphabet == "0123456789"

CharsOf(s) == { CharAt(s, i) : i \in 1..Len(s) }
LowerChars == CharsOf(LowerAlphabet)
UpperChars == CharsOf(UpperAlphabet)
DigitChars == CharsOf(DigitAlphabet)

\* JavaScript passes arguments by value: x is evaluated once, before the call,
\* and F is applied to the value
Call(x, F(_)) == CHOOSE r \in { F(v) : v \in {x} } : TRUE

\* \s of a JavaScript regular expression and the set String.prototype.trim strips
WhiteSpace == { " ", "\n", "\t", "\r" }
IsWs(c) == c \in WhiteSpace

\* \w of a JavaScript regular expression
WordChars == LowerChars \cup UpperChars \cup DigitChars \cup { "_" }
IsWordChar(c) == c \in WordChars

\* canonicalisation of one character under the regular expression flag i
UpperOf ==
    [c \in LowerChars |->
        CharAt(UpperAlphabet,
               CHOOSE i \in 1..Len(LowerAlphabet) : CharAt(LowerAlphabet, i) = c)]
UpperChar(c) == IF c \in LowerChars THEN UpperOf[c] ELSE c

RECURSIVE UpperStr(_)
UpperStr(str) ==
    Call(str, LAMBDA s :
        IF Len(s) = 0 THEN ""
        ELSE IF Len(s) = 1 THEN UpperChar(s)
        ELSE UpperStr(SubSeq(s, 1, Len(s) \div 2))
             \o UpperStr(SubSeq(s, Len(s) \div 2 + 1, Len(s))))

\* String.prototype.trim
Trim(str) ==
    Call(str, LAMBDA s :
        LET keep == { i \in 1..Len(s) : ~IsWs(CharAt(s, i)) }
        IN  IF keep = {} THEN ""
            ELSE LET lo == CHOOSE i \in keep : \A j \in keep : i <= j
                     hi == CHOOSE i \in keep : \A j \in keep : j <= i
                 IN  SubSeq(s, lo, hi))

\* String.prototype.includes
Includes(str, sub) ==
    Call(str, LAMBDA s :
        \E i \in 1..(Len(s) - Len(sub) + 1) : SubSeq(s, i, i + Len(sub) - 1) = sub)

\* String.prototype.startsWith
StartsWith(str, pre) ==
    Call(str, LAMBDA s : Len(s) >= Len(pre) /\ SubSeq(s, 1, Len(pre)) = pre)

(***************************************************************************)
(* isValidSqlQuery (server.js).  A JavaScript value is a record with its   *)
(* typeof in t and, for a string, the text in s.                           *)
(***************************************************************************)
JsString(s) == [t |-> "string", s |-> s, n |-> 0]
JsUndefined == [t |-> "undefined", s |-> "", n |-> 0]
JsNull      == [t |-> "null", s |-> "", n |-> 0]
JsObject    == [t |-> "object", s |-> "", n |-> 0]
\* a number, held in hundredths: JsNumber(475) is 4.75
JsNumber(h) == [t |-> "number", s |-> "", n |-> h]

\* v == null
IsNullish(v) == v.t \in {"undefined", "null"}

\* !sqlQuery : undefined, null and the empty string are falsy, an object is truthy
Falsy(v) == IsNullish(v) \/ (v.t = "string" /\ v.s = "")

\* number of leading whitespace characters: the greedy ^\s*
LeadingWs(s) ==
    IF \A i \in 1..Len(s) : IsWs(CharAt(s, i)) THEN Len(s)
    ELSE (CHOOSE i \in 1..Len(s) :
            /\ ~IsWs(CharAt(s, i))
            /\ \A j \in 1..(i - 1) : IsWs(CharAt(s, j))) - 1

\* the keyword kw, case-insensitively, at position i of s, followed by \s+
KeywordWsAt(s, i, kw) ==
    /\ i + Len(kw) <= Len(s)
    /\ UpperStr(SubSeq(s, i, i + Len(kw) - 1)) = kw
    /\ IsWs(CharAt(s, i + Len(kw)))

\* \b before a word character at position i
WordBoundaryBefore(s, i) == i = 1 \/ ~IsWordChar(CharAt(s, i - 1))

\* /^\s*(WITH|SELECT)\s+/i.test(s)
StartsCorrectly(str) ==
    Call(str, LAMBDA s :
        Call(LeadingWs(s) + 1, LAMBDA i :
            \E kw \in {"WITH", "SELECT"} : KeywordWsAt(s, i, kw)))

\* /\bFROM\s+/i.test(s) || /\bSELECT\s+/i.test(s)
HasBasicStructure(str) ==
    Call(str, LAMBDA s :
        \E kw \in {"FROM", "SELECT"} : \E i \in 1..Len(s) :
            WordBoundaryBefore(s, i) /\ KeywordWsAt(s, i, kw))

isValidSqlQueryNoStartCheck(v) ==
    IF Falsy(v) \/ v.t # "string" THEN FALSE
    ELSE HasBasicStructure(Trim(v.s))

isValidSqlQuery(v) ==
    IF Falsy(v) \/ v.t # "string" THEN FALSE
    ELSE Call(Trim(v.s), LAMBDA trimmedSql :
            IF trimmedSql = "" THEN FALSE
            ELSE IF ~StartsCorrectly(trimmedSql) THEN FALSE
            ELSE HasBasicStructure(trimmedSql))


(***************************************************************************)
(* The external services as the code sees them.                            *)
(***************************************************************************)
\* groq.chat.completions.create: a completion carrying content, or a thrown
\* error with a status (0: the error has no status) and a message.  The SDK
\* puts the HTTP status at the head of the message of an error that has one.
Completion(c) == [ok |-> TRUE, content |-> c, status |-> 0, message |-> ""]
ApiError(st, m) == [ok |-> FALSE, content |-> JsUndefined, status |-> st, message |-> m]

\* the markdown fence of three backquotes; the character ^ stands for the
\* backquote, which a TLA+ string cannot hold
Fence    == "^^^"
FenceSql == Fence \o "sql"

SqlSelect   == "SELECT 1"
SqlFenced   == FenceSql \o "\nSELECT 1\n" \o Fence
SqlFence    == Fence
SqlDelete   == "DELETE FROM fact_session"
SqlDeleteCte == "WITH d AS (DELETE FROM fact_session RETURNING *) SELECT * FROM d"
SqlMulti    == "SELECT 1; SELECT 2"

GenContents ==
    { JsString(SqlSelect), JsString(SqlFenced), JsString(SqlFence),
      JsString(SqlDelete), JsString(SqlDeleteCte), JsString(SqlMulti),
      JsString("  "), JsUndefined }

ServiceErrors ==
    { ApiError(503, "503 Service Unavailable"),
      ApiError(429, "429 Rate limit reached"),
      ApiError(0, "Connection error.") }

GenReplies == { Completion(c) : c \in GenContents } \cup ServiceErrors

SumContents == { JsString("Two sessions were found."), JsString(" "), JsUndefined }
SumReplies == { Completion(c) : c \in SumContents } \cup ServiceErrors

\* the question of the request body
Questions == { JsUndefined, JsString("How many sessions?") }

\* client.query: a result with its rows, a result without a row set (the
\* array of results pg gives for a text of several statements), or an error
RowSets == { [i \in 1..n |-> i] : n \in 0..MaxRows }
QueryOk(rows) == [ok |-> TRUE, rowset |-> TRUE, rows |-> rows, message |-> ""]
QueryNoRowSet == [ok |-> TRUE, rowset |-> FALSE, rows |-> <<>>, message |-> ""]
QueryError(m) == [ok |-> FALSE, rowset |-> FALSE, rows |-> <<>>, message |-> m]

DbMessages ==
    { "relation \"v_sessions\" does not exist",
      "syntax error at or near \"503\"" }
ConnectMessages == { "Connection terminated unexpectedly" }

\* a text of several statements: something follows a semicolon
IsMultiStatement(sql) ==
    \E i \in 1..Len(sql) : CharAt(sql, i) = ";" /\ Trim(SubSeq(sql, i + 1, Len(sql))) # ""

QueryOutcomes(sql) ==
    { QueryError(m) : m \in DbMessages }
    \cup (IF IsMultiStatement(sql) THEN { QueryNoRowSet }
          ELSE { QueryOk(rows) : rows \in RowSets })

\* what Postgres does to fact_session when it runs the text to the end
DbApply(sql, tbl) ==
    IF Includes(UpperStr(sql), "DELETE FROM FACT_SESSION") THEN <<>> ELSE tbl

(***************************************************************************)
(* ai.js: response clean-up, messages, retry ceilings.                     *)
(***************************************************************************)
SqlMaxRetries == 3
SummaryMaxRetries == 2
SqlRetryDelayMs == 2000
SummaryRetryDelayMs == 1000

\* String.prototype.replace(/<pat>\n?/g, "") when optNl, replace(/<pat>/g, "") otherwise
RECURSIVE RemoveAll(_, _, _)
RemoveAll(str, pat, optNl) ==
    Call(str, LAMBDA s :
        IF Len(s) = 0 THEN ""
        ELSE IF StartsWith(s, pat)
             THEN Call(SubSeq(s, Len(pat) + 1, Len(s)), LAMBDA rest :
                     RemoveAll(IF optNl /\ StartsWith(rest, "\n") THEN Tail(rest) ELSE rest,
                               pat, optNl))
             ELSE CharAt(s, 1) \o RemoveAll(Tail(s), pat, optNl))

\* chatCompletion.choices[0]?.message?.content?.trim() || ""
ContentText(c) == IF c.t = "string" THEN Trim(c.s) ELSE ""

\* the markdown clean-up of getAiSql
CleanSql(sqlQuery) ==
    Call(sqlQuery, LAMBDA q :
        Call(IF Includes(q, FenceSql)
             THEN Trim(RemoveAll(RemoveAll(q, FenceSql, TRUE), Fence, TRUE))
             ELSE q,
             LAMBDA c1 : IF Includes(c1, Fence) THEN Trim(RemoveAll(c1, Fence, FALSE))
                         ELSE c1))

NoResultsMessage(module) ==
    IF module = "fixed" THEN "Query executed successfully but returned no results."
    ELSE "The query ran successfully, but returned no results."

EmptyContentSummary(n) ==
    "Query found " \o ToString(n) \o " result(s). See the data table for details."
FallbackSummary(n) ==
    "Query executed successfully and returned " \o ToString(n)
        \o " result(s). Please review the data below."

(***************************************************************************)
(* server.js: the responses of POST /api/query.                            *)
(***************************************************************************)
NoData == [rowset |-> FALSE, rows |-> <<>>]
RowData(rows) == [rowset |-> TRUE, rows |-> rows]

NoResponse ==
    [status |-> 0, error |-> "", details |-> "", suggestion |-> "",
     data |-> NoData, summary |-> "", sql |-> ""]
ErrorResponse(st, e, d, sg) ==
    [status |-> st, error |-> e, details |-> d, suggestion |-> sg,
     data |-> NoData, summary |-> "", sql |-> ""]
SuccessResponse(data, summary, sql) ==
    [status |-> 200, error |-> "", details |-> "", suggestion |-> "",
     data |-> data, summary |-> summary, sql |-> sql]

QueryRequiredResponse == ErrorResponse(400, "Query is required.", "", "")
InvalidSqlResponse(sql) ==
    ErrorResponse(500, "Generated SQL query is invalid", "SQL: " \o sql,
                  "Try rephrasing your question")
AiUnavailableResponse ==
    ErrorResponse(503, "AI service temporarily unavailable",
                  "GROQ API is down. Try again in a few minutes.",
                  "Check https://groqstatus.com/ for status")
DatabaseFailedResponse(m) ==
    ErrorResponse(500, "Database query failed", m, "The SQL might have syntax errors")
InternalErrorResponse(m) ==
    ErrorResponse(500, "Internal server error", m, "Please try again")

\* the catch block of the handler, on error.message
CatchResponse(m) ==
    IF Includes(m, "Service unavailable") \/ Includes(m, "503")
    THEN AiUnavailableResponse
    ELSE IF Includes(m, "Database execution error") THEN DatabaseFailedResponse(m)
    ELSE InternalErrorResponse(m)

\* what reading data.length of a missing row set throws
NoRowsTypeError == "Cannot read properties of undefined (reading 'length')"

(***************************************************************************)
(* schema.sql: the tables.  A nullable column holds the empty set for NULL *)
(* and a singleton for a value; numbers are held in hundredths.            *)
(***************************************************************************)
Null == {}
Some(x) == {x}
IsNull(x) == x = {}
Val(x) == CHOOSE v \in x : TRUE

DimTables == {"dim_instructor", "dim_class", "dim_domain", "dim_type"}

\* a dimension table: its rows and the last value of its SERIAL sequence
EmptyDim == [rows |-> {}, seq |-> 0]

upsertDimAlwaysInsert(tbl, val) ==
    LET id == tbl.seq + 1
    IN  [tbl |-> [rows |-> tbl.rows \cup {[id |-> id, name |-> val]}, seq |-> id],
         id |-> id]

\* INSERT .. ON CONFLICT (name) DO UPDATE SET name = EXCLUDED.name RETURNING *
\* the sequence advances for the proposed row even when the name exists
upsertDim(tbl, val) ==
    LET id == tbl.seq + 1
        old == { d \in tbl.rows : d.name = val }
    IN  IF old # {}
        THEN [tbl |-> [tbl EXCEPT !.seq = id], id |-> (CHOOSE d \in old : TRUE).id]
        ELSE [tbl |-> [rows |-> tbl.rows \cup {[id |-> id, name |-> val]}, seq |-> id],
              id |-> id]

\* UNIQUE (topic_code, type_id, domain_id, class_id, instructor_id, pst_date):
\* two rows conflict when the six columns are equal and none of them is NULL
NaturalKeyConflict(f, g) ==
    /\ ~IsNull(f.topic_code) /\ ~IsNull(g.topic_code)
    /\ f.topic_code = g.topic_code
    /\ f.type_id = g.type_id /\ f.domain_id = g.domain_id
    /\ f.class_id = g.class_id /\ f.instructor_id = g.instructor_id
    /\ f.pst_date = g.pst_date

UpsertFactKeepNonNull(tbl, row) ==
    Call(row, LAMBDA f :
    LET hit == { i \in 1..Len(tbl) : NaturalKeyConflict(tbl[i], f) }
        keep(new, prev) == IF IsNull(new) THEN prev ELSE new
    IN  IF hit = {}
        THEN [tbl |-> Append(tbl, [f EXCEPT !.session_id = Len(tbl) + 1]),
              inserted_flag |-> TRUE]
        ELSE [tbl |-> [i \in 1..Len(tbl) |->
                         IF i \in hit
                         THEN [tbl[i] EXCEPT
                                 !.average = keep(f.average, @),
                                 !.responses = keep(f.responses, @),
                                 !.students_attended = keep(f.students_attended, @),
                                 !.rated_pct = keep(f.rated_pct, @)]
                         ELSE tbl[i]],
              inserted_flag |-> FALSE])

UpsertFactFlagAlwaysSet(tbl, row) ==
    Call(row, LAMBDA f :
    LET hit == { i \in 1..Len(tbl) : NaturalKeyConflict(tbl[i], f) }
    IN  IF hit = {}
        THEN [tbl |-> Append(tbl, [f EXCEPT !.session_id = Len(tbl) + 1]),
              inserted_flag |-> TRUE]
        ELSE [tbl |-> [i \in 1..Len(tbl) |->
                         IF i \in hit
                         THEN [tbl[i] EXCEPT !.average = f.average,
                                             !.responses = f.responses,
                                             !.students_attended = f.students_attended,
                                             !.rated_pct = f.rated_pct]
                         ELSE tbl[i]],
              inserted_flag |-> TRUE])

\* INSERT INTO fact_session .. ON CONFLICT (natural key) DO UPDATE SET the
\* four metrics .. RETURNING xmax = 0 AS inserted_flag
UpsertFact(tbl, row) ==
    Call(row, LAMBDA f :
    LET hit == { i \in 1..Len(tbl) : NaturalKeyConflict(tbl[i], f) }
    IN  IF hit = {}
        THEN [tbl |-> Append(tbl, [f EXCEPT !.session_id = Len(tbl) + 1]),
              inserted_flag |-> TRUE]
        ELSE [tbl |-> [i \in 1..Len(tbl) |->
                         IF i \in hit
                         THEN [tbl[i] EXCEPT !.average = f.average,
                                             !.responses = f.responses,
                                             !.students_attended = f.students_attended,
                                             !.rated_pct = f.rated_pct]
                         ELSE tbl[i]],
              inserted_flag |-> FALSE])

\* the tables as an earlier load left them, for the query path
SeedDims ==
    [dim_instructor |-> [rows |-> {[id |-> 1, name |-> "Ann"]}, seq |-> 1],
     dim_class |-> [rows |-> {[id |-> 1, name |-> "SQL 101"]}, seq |-> 1],
     dim_domain |-> [rows |-> {[id |-> 1, name |-> "Backend"]}, seq |-> 1],
     dim_type |-> [rows |-> {[id |-> 1, name |-> "Live Class"]}, seq |-> 1]]
SeedFacts ==
    << [session_id |-> 1, topic_code |-> Some("T1"), type_id |-> 1, domain_id |-> 1,
        class_id |-> 1, instructor_id |-> 1,
        session_ts_utc |-> "2025-01-04 09:00 America/Los_Angeles",
        pst_date |-> "2025-01-04", pst_year |-> 2025, pst_month |-> 1,
        pst_quarter |-> 1, pst_month_start |-> "2025-01-01",
        average |-> Some(475), responses |-> Some(2000),
        students_attended |-> Some(4000), rated_pct |-> Some(5000)] >>

(***************************************************************************)
(* The POST /api/query task.  pc is the await the task is suspended at.    *)
(***************************************************************************)
Reqs == 1..NumReqs
Conns == 1..PoolMax

NewRequest ==
    [pc |-> "new", userQuery |-> JsUndefined, attempt |-> 0, delay |-> 0,
     sqlQuery |-> "", data |-> NoData, client |-> 0, response |-> NoResponse]

NewHistory ==
    [stages |-> <<>>, genCalls |-> 0, execCalls |-> 0, sumCalls |-> 0, sumFailed |-> 0,
     acquired |-> 0, released |-> 0,
     genOutcome |-> "none", genStatus |-> 0, generated |-> "",
     valOutcome |-> "none", execOutcome |-> "none", execSql |-> "",
     execMessage |-> "", execData |-> NoData, waited |-> <<>>]

Step(rq, h) == [rq |-> rq, h |-> h]

\* res.status(..).json(..): the task ends
Respond(rq, resp) == [rq EXCEPT !.pc = "done", !.response = resp]

\* an error reaches the catch block of the handler
Caught(rq, m) == Respond(rq, CatchResponse(m))

\* groq.chat.completions.create is called for the SQL
CallGenerator(rq, h, n) ==
    Step([rq EXCEPT !.pc = "gen_wait", !.attempt = n, !.delay = 0],
         [h EXCEPT !.genCalls = @ + 1])

\* groq.chat.completions.create is called for the summary
CallSummarizer(rq, h, n) ==
    Step([rq EXCEPT !.pc = "sum_wait", !.attempt = n, !.delay = 0],
         [h EXCEPT !.sumCalls = @ + 1])

\* server.js steps 2 and 3: the validator, then the call of executeQuery,
\* which suspends at pool.connect()
ValidateAndExecuteUnchecked(rq, h, sql) ==
    Step([rq EXCEPT !.pc = "connect_wait", !.sqlQuery = sql],
         [h EXCEPT !.genOutcome = "ok", !.generated = sql,
                   !.stages = @ \o <<"validate", "execute">>,
                   !.valOutcome = IF isValidSqlQuery(JsString(sql)) THEN "ok" ELSE "rejected",
                   !.execCalls = @ + 1, !.execSql = sql])

ValidateAndExecute(rq, h, sql) ==
    LET h1 == [h EXCEPT !.genOutcome = "ok", !.generated = sql,
                        !.stages = Append(@, "validate")]
    IN  IF ~isValidSqlQuery(JsString(sql))
        THEN Step(Respond([rq EXCEPT !.sqlQuery = sql], InvalidSqlResponse(sql)),
                  [h1 EXCEPT !.valOutcome = "rejected"])
        ELSE Step([rq EXCEPT !.pc = "connect_wait", !.sqlQuery = sql],
                  [h1 EXCEPT !.valOutcome = "ok", !.stages = Append(@, "execute"),
                             !.execCalls = @ + 1, !.execSql = sql])

\* getAiSql leaves its for loop without a return or a throw: the caller gets
\* undefined, which the validator of the handler rejects
GetAiSqlFellThrough(rq, h) ==
    Step(Respond(rq, InvalidSqlResponse("undefined")),
         [h EXCEPT !.genOutcome = "undefined", !.stages = Append(@, "validate"),
                   !.valOutcome = "rejected"])

\* attempt++ and the test attempt <= maxRetries of the for loop
NextSqlAttempt(rq, h) ==
    IF rq.attempt + 1 <= SqlMaxRetries THEN CallGenerator(rq, h, rq.attempt + 1)
    ELSE GetAiSqlFellThrough(rq, h)

GetAiSqlFixedNoThrow(rq, h, reply) ==
    LET sqlQuery == ContentText(reply.content)
        error == IF reply.ok THEN ApiError(0, "Empty SQL response from AI") ELSE reply
    IN  IF reply.ok /\ sqlQuery # ""
        THEN ValidateAndExecute(rq, h, CleanSql(sqlQuery))
        ELSE IF error.status = 503 /\ rq.attempt < SqlMaxRetries
        THEN Step([rq EXCEPT !.pc = "gen_delay", !.delay = rq.attempt * SqlRetryDelayMs],
                  [h EXCEPT !.genStatus = error.status])
        ELSE NextSqlAttempt(rq, [h EXCEPT !.genStatus = error.status])

\* getAiSql of the fixed ai.js, resumed with the reply to attempt rq.attempt
GetAiSqlFixed(rq, h, reply) ==
    LET sqlQuery == ContentText(reply.content)
        error == IF reply.ok THEN ApiError(0, "Empty SQL response from AI") ELSE reply
    IN  IF reply.ok /\ sqlQuery # ""
        THEN ValidateAndExecute(rq, h, CleanSql(sqlQuery))
        ELSE IF error.status = 503 /\ rq.attempt < SqlMaxRetries
        THEN Step([rq EXCEPT !.pc = "gen_delay", !.delay = rq.attempt * SqlRetryDelayMs],
                  [h EXCEPT !.genStatus = error.status])
        ELSE IF rq.attempt = SqlMaxRetries
        THEN Step(Caught(rq, "Failed to generate SQL after " \o ToString(SqlMaxRetries)
                               \o " attempts: " \o error.message),
                  [h EXCEPT !.genOutcome = "failed", !.genStatus = error.status])
        ELSE NextSqlAttempt(rq, [h EXCEPT !.genStatus = error.status])

\* getAiSql of the first ai.js: one call, no clean-up
GetAiSqlLegacy(rq, h, reply) ==
    IF reply.ok
    THEN ValidateAndExecute(rq, h, ContentText(reply.content))
    ELSE Step(Caught(rq, "Failed to generate SQL from GROQ API."),
              [h EXCEPT !.genOutcome = "failed", !.genStatus = reply.status])

\* getAiSummary up to its first await, called with the rows of the result
GetAiSummaryStartAlwaysCalls(rq, h) ==
    CallSummarizer(rq, [h EXCEPT !.stages = Append(@, "summarize")], 1)

GetAiSummaryStart(rq, h) ==
    LET h1 == [h EXCEPT !.stages = Append(@, "summarize")]
    IN  IF ~rq.data.rowset \/ Len(rq.data.rows) = 0
        THEN Step(Respond(rq, SuccessResponse(rq.data, NoResultsMessage(aiModule),
                                              rq.sqlQuery)), h1)
        ELSE CallSummarizer(rq, h1, 1)

GetAiSummaryFixedRethrows(rq, h, reply) ==
    LET n == Len(rq.data.rows)
        text == ContentText(reply.content)
        hf == [h EXCEPT !.sumFailed = @ + 1]
    IN  IF reply.ok
        THEN Step(Respond(rq, SuccessResponse(rq.data,
                     IF text # "" THEN text ELSE EmptyContentSummary(n), rq.sqlQuery)), h)
        ELSE IF rq.attempt = SummaryMaxRetries
        THEN Step(Caught(rq, "Failed to generate summary from GROQ API."), hf)
        ELSE IF reply.status = 503 /\ rq.attempt < SummaryMaxRetries
        THEN Step([rq EXCEPT !.pc = "sum_delay", !.delay = SummaryRetryDelayMs], hf)
        ELSE CallSummarizer(rq, hf, rq.attempt + 1)

\* getAiSummary of the fixed ai.js, resumed with the reply to attempt rq.attempt
GetAiSummaryFixed(rq, h, reply) ==
    LET n == Len(rq.data.rows)
        text == ContentText(reply.content)
        hf == [h EXCEPT !.sumFailed = @ + 1]
    IN  IF reply.ok
        THEN Step(Respond(rq, SuccessResponse(rq.data,
                     IF text # "" THEN text ELSE EmptyContentSummary(n), rq.sqlQuery)), h)
        ELSE IF rq.attempt = SummaryMaxRetries
        THEN Step(Respond(rq, SuccessResponse(rq.data, FallbackSummary(n), rq.sqlQuery)), hf)
        ELSE IF reply.status = 503 /\ rq.attempt < SummaryMaxRetries
        THEN Step([rq EXCEPT !.pc = "sum_delay", !.delay = SummaryRetryDelayMs], hf)
        ELSE CallSummarizer(rq, hf, rq.attempt + 1)

\* getAiSummary of the first ai.js: one call, the error is thrown on
GetAiSummaryLegacy(rq, h, reply) ==
    LET text == ContentText(reply.content)
    IN  IF reply.ok
        THEN Step(Respond(rq, SuccessResponse(rq.data,
                     IF text # "" THEN text ELSE "Could not generate a summary.",
                     rq.sqlQuery)), h)
        ELSE Step(Caught(rq, "Failed to generate summary from GROQ API."),
                  [h EXCEPT !.sumFailed = @ + 1])

\* db.js executeQuery, the finally block
FinallyNoRelease(client, pool) == pool

Finally(client, pool) == IF client # 0 THEN pool \ {client} ELSE pool

\* db.js executeQuery, the catch block
ExecutionError(m) == "Database execution error: " \o m

(***************************************************************************)
(* The actions of the query path: one per resumption of the task.          *)
(***************************************************************************)
etlVars == <<dims, etl, sheet>>
validatorVars == <<vIn, vOut>>

ResumeSharedSql(r, out) ==
    /\ req' = [q \in Reqs |->
                 IF q = r THEN out.rq ELSE [req[q] EXCEPT !.sqlQuery = out.rq.sqlQuery]]
    /\ hist' = [hist EXCEPT ![r] = out.h]

Resume(r, out) ==
    /\ req' = [req EXCEPT ![r] = out.rq]
    /\ hist' = [hist EXCEPT ![r] = out.h]

\* the handler starts: the 400 answer, or the first call of the generator
Receive(r, q) ==
    /\ req[r].pc = "new"
    /\ LET rq == [req[r] EXCEPT !.userQuery = q]
       IN  IF Falsy(q)
           THEN Resume(r, Step(Respond(rq, QueryRequiredResponse), hist[r]))
           ELSE Resume(r, CallGenerator(rq, [hist[r] EXCEPT !.stages = <<"generate">>], 1))
    /\ UNCHANGED <<aiModule, inUse, facts, etlVars, validatorVars>>

\* the generation service answers or fails
GenReply(r, reply) ==
    /\ req[r].pc = "gen_wait"
    /\ Resume(r, IF aiModule = "fixed" THEN GetAiSqlFixed(req[r], hist[r], reply)
                 ELSE GetAiSqlLegacy(req[r], hist[r], reply))
    /\ UNCHANGED <<aiModule, inUse, facts, etlVars, validatorVars>>

\* the setTimeout of getAiSql fires; continue: the next attempt is made
GenTimer(r) ==
    /\ req[r].pc = "gen_delay"
    /\ Resume(r, NextSqlAttempt(req[r],
                    [hist[r] EXCEPT !.waited = Append(@, req[r].delay)]))
    /\ UNCHANGED <<aiModule, inUse, facts, etlVars, validatorVars>>

\* pool.connect() resolves with a free connection; client.query is sent
ConnectOk(r) ==
    /\ req[r].pc = "connect_wait"
    /\ Conns \ inUse # {}
    /\ LET c == CHOOSE x \in Conns \ inUse : \A y \in Conns \ inUse : x <= y
       IN  /\ inUse' = inUse \cup {c}
           /\ Resume(r, Step([req[r] EXCEPT !.pc = "query_wait", !.client = c],
                             [hist[r] EXCEPT !.acquired = @ + 1]))
    /\ UNCHANGED <<aiModule, facts, etlVars, validatorVars>>

\* pool.connect() rejects: catch, finally without a client, the handler's catch
ConnectFail(r, m) ==
    /\ req[r].pc = "connect_wait"
    /\ inUse' = Finally(req[r].client, inUse)
    /\ Resume(r, Step(Caught(req[r], ExecutionError(m)),
                      [hist[r] EXCEPT !.execOutcome = "failed", !.execMessage = m,
                                      !.released = @ + Cardinality(inUse \ inUse')]))
    /\ UNCHANGED <<aiModule, facts, etlVars, validatorVars>>

\* client.query settles: return or catch, finally, then the handler goes on
\* to the summary
QueryReply(r, out) ==
    /\ req[r].pc = "query_wait"
    /\ out \in QueryOutcomes(req[r].sqlQuery)
    /\ inUse' = Finally(req[r].client, inUse)
    /\ facts' = IF out.ok THEN DbApply(req[r].sqlQuery, facts) ELSE facts
    /\ LET h == [hist[r] EXCEPT !.released = @ + Cardinality(inUse \ inUse')]
           rq == [req[r] EXCEPT !.data = [rowset |-> out.rowset, rows |-> out.rows]]
       IN  IF ~out.ok
           THEN Resume(r, Step(Caught(req[r], ExecutionError(out.message)),
                               [h EXCEPT !.execOutcome = "failed",
                                         !.execMessage = out.message]))
           ELSE LET h1 == [h EXCEPT !.execOutcome = "ok", !.execData = rq.data]
                IN  IF ~out.rowset
                    THEN Resume(r, Step(Caught(rq, NoRowsTypeError), h1))
                    ELSE Resume(r, GetAiSummaryStart(rq, h1))
    /\ UNCHANGED <<aiModule, etlVars, validatorVars>>

\* the summarisation service answers or fails
SumReply(r, reply) ==
    /\ req[r].pc = "sum_wait"
    /\ Resume(r, IF aiModule = "fixed" THEN GetAiSummaryFixed(req[r], hist[r], reply)
                 ELSE GetAiSummaryLegacy(req[r], hist[r], reply))
    /\ UNCHANGED <<aiModule, inUse, facts, etlVars, validatorVars>>

\* the setTimeout of getAiSummary fires: the next attempt is made
SumTimer(r) ==
    /\ req[r].pc = "sum_delay"
    /\ Resume(r, CallSummarizer(req[r], hist[r], req[r].attempt + 1))
    /\ UNCHANGED <<aiModule, inUse, facts, etlVars, validatorVars>>

(***************************************************************************)
(* load_excel.mjs: cell helpers.                                           *)
(***************************************************************************)
COLS ==
    [topic |-> <<"Topic Code", "Topic code", "Topic", "Type Code">>,
     type |-> <<"Type", "Session Type">>,
     domain |-> <<"Domain">>,
     class |-> <<"Class">>,
     instructor |-> <<"Instructor", "Instructor Name">>,
     sessionDate |-> <<"Session Date", "Date">>,
     average |-> <<"Average", "Overall Average", "Overall Avg", "Avg", "Rating">>,
     responses |-> <<"No of Student Responses", "No of", "Responses", "# Responses">>,
     attended |-> <<"No of Students Attended", "Attended", "# Attended", "No of Students">>,
     ratedPct |-> <<"% Rated", "Rated %", "% rated", "Percent Rated">>]

LowerOf ==
    [c \in UpperChars |->
        CharAt(LowerAlphabet,
               CHOOSE i \in 1..Len(UpperAlphabet) : CharAt(UpperAlphabet, i) = c)]
LowerChar(c) == IF c \in UpperChars THEN LowerOf[c] ELSE c

RECURSIVE LowerStr(_)
LowerStr(str) ==
    Call(str, LAMBDA s :
        IF Len(s) = 0 THEN ""
        ELSE IF Len(s) = 1 THEN LowerChar(s)
        ELSE LowerStr(SubSeq(s, 1, Len(s) \div 2))
             \o LowerStr(SubSeq(s, Len(s) \div 2 + 1, Len(s))))

\* String.prototype.replace(/\s+/g, " ")
RECURSIVE CollapseWs(_)
CollapseWs(str) ==
    Call(str, LAMBDA s :
        IF Len(s) = 0 THEN ""
        ELSE IF IsWs(CharAt(s, 1))
             THEN " " \o CollapseWs(SubSeq(s, LeadingWs(s) + 1, Len(s)))
             ELSE CharAt(s, 1) \o CollapseWs(Tail(s)))

normKey(k) == LowerStr(Trim(CollapseWs(k)))

\* v === "" || v == null
IsEmptyCell(v) == IsNullish(v) \/ (v.t = "string" /\ v.s = "")

\* Number.prototype.toString of a number held in hundredths
NumText(h) ==
    LET a == IF h < 0 THEN 0 - h ELSE h
        fp == a % 100
        frac == IF fp = 0 THEN ""
                ELSE IF fp % 10 = 0 THEN "." \o ToString(fp \div 10)
                ELSE IF fp < 10 THEN ".0" \o ToString(fp)
                ELSE "." \o ToString(fp)
    IN  (IF h < 0 THEN "-" ELSE "") \o ToString(a \div 100) \o frac

\* t: (v ?? "").toString().trim()
T(val) ==
    Call(val, LAMBDA v :
        IF IsNullish(v) THEN ""
        ELSE IF v.t = "number" THEN NumText(v.n)
        ELSE Trim(v.s))

\* pick: map holds the header of the row under each normalised key (the rows
\* of the model have no two headers with the same key); the value under the
\* first alias that has a header with a non-empty cell, or null
pick(row, keys) ==
    Call({ <<normKey(k), k>> : k \in DOMAIN row }, LAMBDA map :
        Call({ i \in 1..Len(keys) :
                 Call(normKey(keys[i]), LAMBDA want :
                     \E e \in map : e[1] = want /\ ~IsEmptyCell(row[e[2]])) },
             LAMBDA hits :
                IF hits = {} THEN JsNull
                ELSE Call(normKey(keys[CHOOSE i \in hits : \A j \in hits : i <= j]),
                          LAMBDA want : row[(CHOOSE e \in map : e[1] = want)[2]])))

IsDigit(c) == c \in DigitChars
AllDigits(str) == Call(str, LAMBDA s : \A i \in 1..Len(s) : IsDigit(CharAt(s, i)))
DigitOf ==
    [c \in DigitChars |->
        (CHOOSE i \in 1..Len(DigitAlphabet) : CharAt(DigitAlphabet, i) = c) - 1]
DigitVal(c) == DigitOf[c]

RECURSIVE DigitsValue(_)
DigitsValue(str) ==
    Call(str, LAMBDA s :
        IF Len(s) = 0 THEN 0
        ELSE DigitsValue(SubSeq(s, 1, Len(s) - 1)) * 10 + DigitVal(CharAt(s, Len(s))))

\* Number(s) of a decimal literal, in hundredths (a third decimal is cut);
\* Null is NaN; Number("") is 0
ParseNumber(str) ==
    Call(Trim(str), LAMBDA s0 :
        Call(IF StartsWith(s0, "-") \/ StartsWith(s0, "+") THEN Tail(s0) ELSE s0,
             LAMBDA s :
        LET neg == StartsWith(s0, "-")
            dots == { i \in 1..Len(s) : CharAt(s, i) = "." }
            dot == IF dots = {} THEN Len(s) + 1
                   ELSE CHOOSE i \in dots : \A j \in dots : i <= j
            ip == SubSeq(s, 1, dot - 1)
            fp == SubSeq(s, dot + 1, Len(s))
            fp2 == SubSeq(fp \o "00", 1, 2)
            mag == DigitsValue(ip) * 100 + DigitsValue(fp2)
        IN  IF s0 = "" THEN Some(0)
            ELSE IF Cardinality(dots) > 1 \/ ~AllDigits(ip) \/ ~AllDigits(fp)
                      \/ (ip = "" /\ fp = "")
            THEN Null
            ELSE Some(IF neg THEN 0 - mag ELSE mag)))

num(val) ==
    Call(val, LAMBDA v :
        IF IsEmptyCell(v) THEN Null
        ELSE IF v.t = "number" THEN Some(v.n)
        ELSE ParseNumber(RemoveAll(T(v), ",", FALSE)))

PercentBelowOne(h) == IF h < 100 THEN h * 100 ELSE h

\* v <= 1 ? v * 100 : v, on hundredths
Percent(h) == IF h <= 100 THEN h * 100 ELSE h

pct(val) ==
    Call(val, LAMBDA v :
        IF IsEmptyCell(v) THEN Null
        ELSE IF v.t = "number" THEN Some(Percent(v.n))
        ELSE Call(T(v), LAMBDA s :
                Call(num(JsString(IF Len(s) > 0 /\ CharAt(s, Len(s)) = "%"
                                  THEN SubSeq(s, 1, Len(s) - 1) ELSE s)),
                     LAMBDA n : IF IsNull(n) THEN Null ELSE Some(Percent(Val(n))))))

(***************************************************************************)
(* load_excel.mjs: dates.                                                  *)
(***************************************************************************)
IsLeap(y) == (y % 4 = 0 /\ y % 100 # 0) \/ y % 400 = 0
DaysInMonth(y, m) ==
    IF m = 2 THEN (IF IsLeap(y) THEN 29 ELSE 28)
    ELSE IF m \in {4, 6, 9, 11} THEN 30 ELSE 31

Pad(n, w) ==
    LET d == ToString(n)
    IN  SubSeq("0000", 1, IF Len(d) < w THEN w - Len(d) ELSE 0) \o d

\* dayjs format("YYYY-MM-DD")
FormatDate(y, m, d) == Pad(y, 4) \o "-" \o Pad(m, 2) \o "-" \o Pad(d, 2)

\* the text is YYYY-MM-DD and names a day of the calendar
IsCanonicalDate(str) ==
    Call(str, LAMBDA s :
        /\ Len(s) = 10
        /\ CharAt(s, 5) = "-" /\ CharAt(s, 8) = "-"
        /\ AllDigits(SubSeq(s, 1, 4)) /\ AllDigits(SubSeq(s, 6, 7))
        /\ AllDigits(SubSeq(s, 9, 10))
        /\ LET y == DigitsValue(SubSeq(s, 1, 4))
               m == DigitsValue(SubSeq(s, 6, 7))
               d == DigitsValue(SubSeq(s, 9, 10))
           IN  m \in 1..12 /\ d \in 1..DaysInMonth(y, m))

\* excelSerialToDate and its UTC formatting, for a serial after 1900-02-29
\* (serial 61 is 1900-03-01; serial 25569 is 1970-01-01)
ExcelSerialDate(serial) ==
    LET z == serial - 25569 + 719468
        era == z \div 146097
        doe == z - era * 146097
        yoe == (doe - doe \div 1460 + doe \div 36524 - doe \div 146096) \div 365
        doy == doe - (365 * yoe + yoe \div 4 - yoe \div 100)
        mp == (5 * doy + 2) \div 153
        d == doy - (153 * mp + 2) \div 5 + 1
        m == IF mp < 10 THEN mp + 3 ELSE mp - 9
        y == yoe + era * 400 + (IF m <= 2 THEN 1 ELSE 0)
    IN  FormatDate(y, m, d)

\* REGEX_PARSE of dayjs on a text of ten characters: dddd-dd-dd
IsDateShaped(str) ==
    Call(str, LAMBDA s :
        /\ Len(s) = 10
        /\ CharAt(s, 5) = "-" /\ CharAt(s, 8) = "-"
        /\ AllDigits(SubSeq(s, 1, 4)) /\ AllDigits(SubSeq(s, 6, 7))
        /\ AllDigits(SubSeq(s, 9, 10)))

\* the Date constructor reads a year of 0..99 as a year of the 1900s
JsFullYear(y) == IF y \in 0..99 THEN 1900 + y ELSE y

\* days from 1970-01-01 to day d of month m (1..12) of year y; d may lie
\* outside the month
DaysFromCivil(y, m, d) ==
    LET y1 == IF m <= 2 THEN y - 1 ELSE y
        era == y1 \div 400
        yoe == y1 - era * 400
        mp == (m + 9) % 12
        doy == (153 * mp + 2) \div 5 + d - 1
        doe == yoe * 365 + yoe \div 4 - yoe \div 100 + doy
    IN  era * 146097 + doe - 719468

\* dayjs(s) for a text REGEX_PARSE matches, then format("YYYY-MM-DD"): the
\* date is new Date(y, m - 1, d) in local time, where a month or a day out
\* of range rolls over; without the customParseFormat plugin, which the
\* loader does not load, dayjs(s, f, true) is dayjs(s)
LocalDate(y, m, d) ==
    LET mi == m - 1
    IN  ExcelSerialDate(DaysFromCivil(JsFullYear(y) + (mi \div 12), (mi % 12) + 1, d)
                        + 25569)

\* normalizePstDate: Null when nothing parses.  Of the strings, the model
\* feeds texts of the shape dddd-dd-dd and texts no Date parse accepts.
normalizePstDate(raw) ==
    IF IsNullish(raw) THEN Null
    ELSE IF raw.t = "number"
    THEN (IF raw.n \div 100 > 60 THEN Some(ExcelSerialDate(raw.n \div 100)) ELSE Null)
    ELSE Call(T(raw), LAMBDA s :
            IF s = "" THEN Null
            ELSE IF IsDateShaped(s)
            THEN Some(LocalDate(DigitsValue(SubSeq(s, 1, 4)),
                                DigitsValue(SubSeq(s, 6, 7)),
                                DigitsValue(SubSeq(s, 9, 10))))
            ELSE Null)

qOfRounded(m) == m \div 3 + 1

qOf(m) == (m - 1) \div 3 + 1

(***************************************************************************)
(* load_excel.mjs: main.                                                   *)
(***************************************************************************)
MaxRecords == 2
MaxRuns == 2

\* a row of sheet_to_json(ws, {defval: "", raw: true})
SheetRow(topic, type, domain, class, instructor, date, average, responses, attended, rated) ==
    ("Topic Code" :> topic) @@ ("Type" :> type) @@ ("Domain" :> domain)
    @@ ("Class" :> class) @@ ("Instructor" :> instructor) @@ ("Session Date" :> date)
    @@ ("Average" :> average) @@ ("No of Student Responses" :> responses)
    @@ ("No of Students Attended" :> attended) @@ ("% Rated" :> rated)

Blank == JsString("")

RecFull ==
    SheetRow(JsString("T1"), JsString("Live Class"), JsString("Backend"),
             JsString("SQL 101"), JsString("Ann"), JsString("2025-01-04"),
             JsNumber(475), JsNumber(2000), JsNumber(4000), JsNumber(50))
\* the same session with other metrics
RecAgain ==
    SheetRow(JsString("T1"), JsString("Live Class"), JsString("Backend"),
             JsString("SQL 101"), JsString("Ann"), JsNumber(4566100),
             JsNumber(400), JsNumber(3000), JsNumber(4000), JsString("75%"))
RecNoTopic ==
    SheetRow(Blank, JsString("Live Class"), JsString("Backend"),
             JsString("SQL 101"), JsString("Bob"), JsString("2025-04-15"),
             JsNumber(450), JsNumber(1000), JsNumber(2000), JsNumber(6000))
RecNoResponses ==
    SheetRow(JsString("T2"), JsString("Live Class"), JsString("Backend"),
             JsString("SQL 101"), JsString("Ann"), JsString("2025-07-01"),
             JsNumber(450), Blank, JsNumber(4000), JsNumber(5000))
RecNoRated ==
    SheetRow(JsString("T3"), JsString("Test Review Session"), JsString("Data Science"),
             JsString("ML 201"), JsString("Bob"), JsString("2025-12-31"),
             JsNumber(500), JsNumber(2000), JsNumber(4000), Blank)
RecNoMetrics ==
    SheetRow(JsString("T4"), JsString("Live Class"), JsString("Data Science"),
             JsString("ML 201"), JsString("Ann"), JsString("2025-10-09"),
             Blank, Blank, Blank, Blank)
RecNoInstructor ==
    SheetRow(JsString("T5"), JsString("Live Class"), JsString("Backend"),
             JsString("SQL 101"), Blank, JsString("2025-01-04"),
             JsNumber(475), JsNumber(2000), JsNumber(4000), JsNumber(50))
RecBadDate ==
    SheetRow(JsString("T6"), JsString("Live Class"), JsString("Backend"),
             JsString("SQL 101"), JsString("Ann"), JsString("to be decided"),
             JsNumber(475), JsNumber(2000), JsNumber(4000), JsNumber(50))

\* more responses than students attended, no rated percentage
RecOverRated ==
    SheetRow(JsString("T7"), JsString("Live Class"), JsString("Backend"),
             JsString("SQL 101"), JsString("Ann"), JsString("2025-03-31"),
             JsNumber(450), JsNumber(5000), JsNumber(4000), Blank)
RecZeroAttended ==
    SheetRow(JsString("T8"), JsString("Live Class"), JsString("Backend"),
             JsString("SQL 101"), JsString("Ann"), JsString("2025-06-30"),
             JsNumber(450), JsNumber(1000), JsNumber(0), Blank)
\* no instructor and no responses
RecNoInstructorNoResponses ==
    SheetRow(JsString("T9"), JsString("Live Class"), JsString("Backend"),
             JsString("SQL 101"), Blank, JsString("2025-01-04"),
             JsNumber(475), Blank, JsNumber(4000), JsNumber(50))

\* the session of RecFull with no metrics
RecFullNoMetrics ==
    SheetRow(JsString("T1"), JsString("Live Class"), JsString("Backend"),
             JsString("SQL 101"), JsString("Ann"), JsString("2025-01-04"),
             Blank, Blank, Blank, Blank)

RecordPool ==
    { RecFull, RecAgain, RecNoTopic, RecNoResponses, RecNoRated, RecNoMetrics,
      RecNoInstructor, RecBadDate, RecOverRated, RecZeroAttended,
      RecNoInstructorNoResponses, RecFullNoMetrics }

Sheets == UNION { [1..n -> RecordPool] : n \in 0..MaxRecords }

DeriveRatedOverwrites(rated0, responses, attended) ==
    IF ~IsNull(responses) /\ ~IsNull(attended) /\ Val(attended) > 0
    THEN Some((Val(responses) * 10000) \div Val(attended))
    ELSE rated0

\* lines 167-169: let rated = pct(..); if (rated == null && responses != null
\* && attended != null && attended > 0) rated = (responses / attended) * 100
DeriveRated(rated0, responses, attended) ==
    IF IsNull(rated0) /\ ~IsNull(responses) /\ ~IsNull(attended) /\ Val(attended) > 0
    THEN Some((Val(responses) * 10000) \div Val(attended))
    ELSE rated0

\* the constants a record is read into, lines 156-169
ReadRecord(r) ==
    Call(num(pick(r, COLS.responses)), LAMBDA responses :
    Call(num(pick(r, COLS.attended)), LAMBDA attended :
    Call(pct(pick(r, COLS.ratedPct)), LAMBDA rated0 :
        [topic |-> T(pick(r, COLS.topic)), type |-> T(pick(r, COLS.type)),
         domain |-> T(pick(r, COLS.domain)), clazz |-> T(pick(r, COLS.class)),
         instr |-> T(pick(r, COLS.instructor)),
         dateRaw |-> pick(r, COLS.sessionDate),
         average |-> num(pick(r, COLS.average)),
         responses |-> responses, attended |-> attended,
         rated |-> DeriveRated(rated0, responses, attended)])))

\* the condition of the if at lines 171-175; its body assigns to the const
\* responses, which throws TypeError: Assignment to constant variable.
BackfillsResponses(c) ==
    IsNull(c.responses) /\ ~IsNull(c.attended) /\ ~IsNull(c.rated)

\* lines 192-242: the four dimension upserts, the calendar fields, the fact upsert
LoadRecord(c, pstDate, d, f) ==
    Call(upsertDim(d.dim_instructor, c.instr), LAMBDA di :
    Call(upsertDim(d.dim_class, c.clazz), LAMBDA dc :
    Call(upsertDim(d.dim_domain, c.domain), LAMBDA dd :
    Call(upsertDim(d.dim_type, c.type), LAMBDA dt :
    Call(DigitsValue(SubSeq(pstDate, 1, 4)), LAMBDA y :
    Call(DigitsValue(SubSeq(pstDate, 6, 7)), LAMBDA m :
    Call(UpsertFact(f,
            [session_id |-> 0,
             topic_code |-> IF c.topic = "" THEN Null ELSE Some(c.topic),
             type_id |-> dt.id, domain_id |-> dd.id, class_id |-> dc.id,
             instructor_id |-> di.id,
             session_ts_utc |-> pstDate \o " 09:00 America/Los_Angeles",
             pst_date |-> pstDate, pst_year |-> y, pst_month |-> m,
             pst_quarter |-> qOf(m),
             pst_month_start |-> ToString(y) \o "-" \o Pad(m, 2) \o "-01",
             average |-> c.average, responses |-> c.responses,
             students_attended |-> c.attended, rated_pct |-> c.rated]),
         LAMBDA up :
            [dims |-> [dim_instructor |-> di.tbl, dim_class |-> dc.tbl,
                       dim_domain |-> dd.tbl, dim_type |-> dt.tbl],
             facts |-> up.tbl, inserted_flag |-> up.inserted_flag])))))))

IdleEtl ==
    [pc |-> "idle", run |-> 0, i |-> 0, inserted |-> 0, updated |-> 0,
     skipped |-> 0, badDate |-> 0, error |-> "", afterFirst |-> <<>>,
     rowsAtStart |-> 0]

\* main up to the loop: the file, the connection and the sheet are there
EtlStart ==
    /\ etl.pc = "idle"
    /\ etl' = [etl EXCEPT !.pc = "running", !.run = 1, !.i = 1,
                          !.rowsAtStart = Len(facts)]
    /\ UNCHANGED <<aiModule, req, hist, inUse, facts, dims, sheet, validatorVars>>

\* one iteration of for (const r of rows)
EtlRecord ==
    /\ etl.pc = "running"
    /\ etl.i <= Len(sheet)
    /\ \E c \in {ReadRecord(sheet[etl.i])} :
           IF BackfillsResponses(c)
           THEN /\ etl' = [etl EXCEPT !.pc = "failed",
                                      !.error = "Assignment to constant variable."]
                /\ UNCHANGED <<facts, dims>>
           ELSE IF c.type = "" \/ c.domain = "" \/ c.clazz = "" \/ c.instr = ""
           THEN /\ etl' = [etl EXCEPT !.skipped = @ + 1, !.i = @ + 1]
                /\ UNCHANGED <<facts, dims>>
           ELSE \E pstDate \in {normalizePstDate(c.dateRaw)} :
                IF IsNull(pstDate) \/ pstDate = Some("")
                THEN /\ etl' = [etl EXCEPT !.badDate = @ + 1, !.skipped = @ + 1,
                                           !.i = @ + 1]
                     /\ UNCHANGED <<facts, dims>>
                ELSE \E out \in {LoadRecord(c, Val(pstDate), dims, facts)} :
                        /\ dims' = out.dims
                        /\ facts' = out.facts
                        /\ etl' = IF out.inserted_flag
                                  THEN [etl EXCEPT !.inserted = @ + 1, !.i = @ + 1]
                                  ELSE [etl EXCEPT !.updated = @ + 1, !.i = @ + 1]
    /\ UNCHANGED <<aiModule, req, hist, inUse, sheet, validatorVars>>

\* the loop is over: the report, db.end()
EtlComplete ==
    /\ etl.pc = "running"
    /\ etl.i > Len(sheet)
    /\ etl' = [etl EXCEPT !.pc = "complete",
                          !.afterFirst = IF etl.run = 1 THEN facts ELSE @]
    /\ UNCHANGED <<aiModule, req, hist, inUse, facts, dims, sheet, validatorVars>>

\* the loader is run again on the same file
EtlRerun ==
    /\ etl.pc = "complete"
    /\ etl.run < MaxRuns
    /\ etl' = [IdleEtl EXCEPT !.pc = "running", !.run = etl.run + 1, !.i = 1,
                              !.afterFirst = etl.afterFirst,
                              !.rowsAtStart = Len(facts)]
    /\ UNCHANGED <<aiModule, req, hist, inUse, facts, dims, sheet, validatorVars>>

EmptyDims ==
    [dim_instructor |-> EmptyDim, dim_class |-> EmptyDim,
     dim_domain |-> EmptyDim, dim_type |-> EmptyDim]

InitEtl ==
    /\ aiModule = "fixed"
    /\ req = [r \in Reqs |-> NewRequest]
    /\ hist = [r \in Reqs |-> NewHistory]
    /\ inUse = {}
    /\ facts = <<>>
    /\ dims = EmptyDims
    /\ etl = IdleEtl
    /\ sheet \in Sheets
    /\ vIn = JsUndefined
    /\ vOut = "none"

NextEtl == EtlStart \/ EtlRecord \/ EtlComplete \/ EtlRerun

SpecEtl == InitEtl /\ [][NextEtl]_vars

Init ==
    /\ aiModule \in {"fixed", "legacy"}
    /\ req = [r \in Reqs |-> NewRequest]
    /\ hist = [r \in Reqs |-> NewHistory]
    /\ inUse = {}
    /\ facts = SeedFacts
    /\ dims = SeedDims
    /\ etl = IdleEtl
    /\ sheet = <<>>
    /\ vIn = JsUndefined
    /\ vOut = "none"

Next ==
    \E r \in Reqs :
        \/ \E q \in Questions : Receive(r, q)
        \/ \E reply \in GenReplies : GenReply(r, reply)
        \/ GenTimer(r)
        \/ ConnectOk(r)
        \/ \E m \in ConnectMessages : ConnectFail(r, m)
        \/ \E out \in QueryOutcomes(req[r].sqlQuery) : QueryReply(r, out)
        \/ \E reply \in SumReplies : SumReply(r, reply)
        \/ SumTimer(r)

Spec == Init /\ [][Next]_vars

\* every call of the generation service returns or fails, and every timer of
\* getAiSql fires
FairGeneration ==
    \A r \in Reqs :
        /\ WF_vars(\E reply \in GenReplies : GenReply(r, reply))
        /\ WF_vars(GenTimer(r))

SpecLive == Spec /\ FairGeneration

(***************************************************************************)
(* isValidSqlQuery on its own: the value it is given is any of the texts   *)
(* made of at most MaxFrags fragments, a sample statement, or a value that *)
(* is not a string.                                                        *)
(***************************************************************************)
Fragments == { "WITH", "SELECT", "FROM", "select", " ", "\n", "x", "1", "(", "_" }

RECURSIVE Texts(_)
Texts(n) ==
    IF n = 0 THEN { "" }
    ELSE Call(Texts(n - 1), LAMBDA shorter :
            shorter \cup { a \o f : a \in shorter, f \in Fragments })

SqlCte == "WITH x AS (SELECT 1) SELECT * FROM x"
SqlSamples == { SqlSelect, SqlCte, SqlDelete, SqlDeleteCte, SqlMulti, SqlFenced }

ValidatorInputs ==
    { JsString(x) : x \in Texts(MaxFrags) \cup SqlSamples }
    \cup { JsUndefined, JsNull, JsObject, JsNumber(100) }

\* isValidSqlQuery(vIn) is called and returns
Validate ==
    /\ vOut = "none"
    /\ vOut' = IF isValidSqlQuery(vIn) THEN "valid" ELSE "invalid"
    /\ UNCHANGED <<aiModule, req, hist, inUse, facts, dims, etl, sheet, vIn>>

InitValidator ==
    /\ aiModule = "fixed"
    /\ req = [r \in Reqs |-> NewRequest]
    /\ hist = [r \in Reqs |-> NewHistory]
    /\ inUse = {}
    /\ facts = SeedFacts
    /\ dims = SeedDims
    /\ etl = IdleEtl
    /\ sheet = <<>>
    /\ vIn \in ValidatorInputs
    /\ vOut = "none"

NextValidator == Validate

SpecValidator == InitValidator /\ [][NextValidator]_vars

(***************************************************************************)
(* pct on its own: the cell it is given is a number, the text of a number  *)
(* with or without a trailing % and surrounding blanks, or a cell that     *)
(* holds no number.  Numbers are in hundredths.                            *)
(***************************************************************************)
PctNumbers == ((0 - 20)..MaxPct) \cup { 2500, 9000, 10000, 25000 }

PctNonNumeric ==
    { Blank, JsNull, JsUndefined, JsString(" "), JsString("%"), JsString("abc"),
      JsString("n/a"), JsString("abc%"), JsString("12abc"), JsString("1.2.3") }

PctInputs ==
    { JsNumber(h) : h \in PctNumbers }
    \cup { JsString(pre \o NumText(h) \o post) :
             h \in PctNumbers, pre \in {"", " "}, post \in {"", "%", "% "} }
    \cup { JsString("1,000"), JsString("1,000%") }
    \cup PctNonNumeric

\* pct(vIn) is called and returns
ApplyPct ==
    /\ vOut = <<>>
    /\ vOut' = <<pct(vIn)>>
    /\ UNCHANGED <<aiModule, req, hist, inUse, facts, dims, etl, sheet, vIn>>

InitPct ==
    /\ aiModule = "fixed"
    /\ req = [r \in Reqs |-> NewRequest]
    /\ hist = [r \in Reqs |-> NewHistory]
    /\ inUse = {}
    /\ facts = SeedFacts
    /\ dims = SeedDims
    /\ etl = IdleEtl
    /\ sheet = <<>>
    /\ vIn \in PctInputs
    /\ vOut = <<>>

NextPct == ApplyPct

SpecPct == InitPct /\ [][NextPct]_vars

(***************************************************************************)
(* normalizePstDate on its own: the cell it is given is a text of the      *)
(* shape YYYY-MM-DD, a serial number, or a cell without a date; its        *)
(* result, when it is a date, is normalised a second time.                 *)
(***************************************************************************)
DateInputs ==
    { JsString(FormatDate(y, m, d)) :
        y \in { 50, 99, 100, 1900, 2000, 2024, 2025 }, m \in 1..12, d \in 1..31 }
    \cup { JsNumber(serial * 100) : serial \in { 61, 36526, 45661, 45716 } }
    \cup { JsString(" 2025-01-04 "), JsString("to be decided"), Blank, JsNull }

\* normalizePstDate is called on the cell, and then on the date it returned
Normalize ==
    /\ Len(vOut) < 2
    /\ vOut # <<>> => ~IsNull(vOut[1])
    /\ vOut' = Append(vOut, normalizePstDate(IF vOut = <<>> THEN vIn
                                             ELSE JsString(Val(vOut[1]))))
    /\ UNCHANGED <<aiModule, req, hist, inUse, facts, dims, etl, sheet, vIn>>

InitDate ==
    /\ aiModule = "fixed"
    /\ req = [r \in Reqs |-> NewRequest]
    /\ hist = [r \in Reqs |-> NewHistory]
    /\ inUse = {}
    /\ facts = SeedFacts
    /\ dims = SeedDims
    /\ etl = IdleEtl
    /\ sheet = <<>>
    /\ vIn \in DateInputs
    /\ vOut = <<>>

SpecDate == InitDate /\ [][Normalize]_vars

(***************************************************************************)
(* The properties.                                                         *)
(***************************************************************************)
StageOrder == <<"generate", "validate", "execute", "summarize">>
IsPrefix(a, b) == Len(a) <= Len(b) /\ SubSeq(b, 1, Len(a)) = a
Stages(h) == { h.stages[k] : k \in 1..Len(h.stages) }

\* C1: the stages of a request run in the order generate, validate, execute,
\* summarize; the generator is called only for a request with question text,
\* the executor only with the SQL generated for this request and accepted by
\* the validator, the summarizer only after the execution succeeded, and
\* after a stage failed no later stage is entered
C1_StagesInOrder ==
    \A r \in Reqs :
        LET h == hist[r]
        IN  /\ IsPrefix(h.stages, StageOrder)
            /\ h.genCalls > 0 => ~Falsy(req[r].userQuery)
            /\ h.genCalls = 0 => h.stages = <<>>
            /\ h.execCalls <= 1
            /\ h.execCalls = 1 <=> "execute" \in Stages(h)
            /\ h.execCalls > 0 =>
                    /\ h.genOutcome = "ok" /\ h.valOutcome = "ok"
                    /\ h.execSql = h.generated
                    /\ isValidSqlQuery(JsString(h.execSql))
            /\ (h.sumCalls > 0 \/ "summarize" \in Stages(h)) => h.execOutcome = "ok"
            /\ h.genOutcome = "failed" =>
                    h.stages = <<"generate">> /\ h.execCalls = 0 /\ h.sumCalls = 0
            /\ h.valOutcome = "rejected" =>
                    /\ h.stages = <<"generate", "validate">>
                    /\ h.execCalls = 0 /\ h.sumCalls = 0
            /\ h.execOutcome = "failed" =>
                    h.stages = <<"generate", "validate", "execute">> /\ h.sumCalls = 0

\* C1: a request went through the four stages, the summarizer was called
\* and the success payload was sent
C1_Witness ==
    \E r \in Reqs :
        /\ req[r].pc = "done" /\ req[r].response.status = 200
        /\ hist[r].stages = StageOrder
        /\ hist[r].genCalls > 0 /\ hist[r].execCalls = 1 /\ hist[r].sumCalls > 0

\* C2: a request whose generation, validation and execution succeeded with a
\* row set is answered with the success payload (data, summary, sql) and a
\* non-empty summary, whatever the summarization service did
C2_SummaryNeverFails ==
    \A r \in Reqs :
        (/\ req[r].pc = "done"
         /\ hist[r].genOutcome = "ok" /\ hist[r].valOutcome = "ok"
         /\ hist[r].execOutcome = "ok" /\ hist[r].execData.rowset)
        => /\ req[r].response.status = 200
           /\ req[r].response.summary # ""
           /\ req[r].response.data = hist[r].execData
           /\ req[r].response.sql = hist[r].execSql

\* C3: the query path leaves the fact table and the dimension tables as they
\* were
C3_QueryPathReadOnly == facts = SeedFacts /\ dims = SeedDims

\* C4: after the second run on the same file the fact table is the table the
\* first run left, and the second run counted no record as inserted
C4_SecondRunChangesNothing ==
    (etl.pc = "complete" /\ etl.run = 2)
    => (facts = etl.afterFirst /\ etl.inserted = 0)

\* C5: the loader does not stop at a record whose responses are absent and
\* whose attendance 40 and rated percentage 50 are there: once it is past
\* the record, the fact row of the record holds responses 20
C5_ResponsesBackfilled ==
    /\ etl.pc # "failed"
    /\ \A k \in 1..Len(sheet) :
          (sheet[k] = RecNoResponses /\ etl.run >= 1 /\ etl.i > k)
          => \E j \in 1..Len(facts) :
                /\ facts[j].topic_code = Some("T2")
                /\ facts[j].students_attended = Some(4000)
                /\ facts[j].responses = Some(2000)

\* C6: the connections checked out are those of the executeQuery calls
\* waiting for client.query, one each, never more than the pool holds; a
\* call that got a connection has released it once when it has returned or
\* thrown, a call that got none has released nothing, and none is checked
\* out when no executeQuery call is in flight
C6_ConnectionsReleased ==
    /\ inUse = { req[r].client : r \in { q \in Reqs : req[q].pc = "query_wait" } }
    /\ \A r, q \in Reqs :
          (r # q /\ req[r].pc = "query_wait" /\ req[q].pc = "query_wait")
          => req[r].client # req[q].client
    /\ inUse \subseteq Conns /\ Cardinality(inUse) <= PoolMax
    /\ \A r \in Reqs :
          /\ hist[r].released <= hist[r].acquired /\ hist[r].acquired <= hist[r].execCalls
          /\ req[r].pc = "query_wait" => hist[r].acquired = 1 /\ hist[r].released = 0
          /\ req[r].pc \notin {"connect_wait", "query_wait"}
                => hist[r].released = hist[r].acquired
          /\ hist[r].execOutcome # "none" => hist[r].released = hist[r].acquired
    /\ (\A r \in Reqs : req[r].pc \notin {"connect_wait", "query_wait"}) => inUse = {}

\* C6: a call whose query failed has released its connection while the call
\* of another request holds the connection of the pool
C6_Witness ==
    \E r, q \in Reqs :
        /\ r # q
        /\ req[r].pc = "done" /\ hist[r].execOutcome = "failed"
        /\ hist[r].acquired = 1 /\ hist[r].released = 1
        /\ req[q].pc = "query_wait" /\ inUse = {req[q].client}

\* the rule of C7 on a value: a string, not empty when trimmed, that begins
\* with WITH or SELECT and whitespace and holds the keyword FROM or SELECT
\* followed by whitespace, letters compared without case
AcceptedByRule(v) ==
    /\ v.t = "string"
    /\ Call(UpperStr(Trim(v.s)), LAMBDA u :
          /\ u # ""
          /\ \E kw \in {"WITH", "SELECT"} : \E w \in WhiteSpace : StartsWith(u, kw \o w)
          /\ \E kw \in {"FROM", "SELECT"} : \E w \in WhiteSpace :
                \E i \in 1..(Len(u) - Len(kw)) :
                    /\ SubSeq(u, i, i + Len(kw)) = kw \o w
                    /\ (i = 1 \/ CharAt(u, i - 1) \notin WordChars))

C8_ExecutionFailureCategory ==
    \A r \in Reqs :
        (req[r].pc = "done" /\ hist[r].execOutcome = "failed")
        => /\ req[r].response.status = 500
           /\ req[r].response.error = "Database query failed"
           /\ req[r].response.details
                = "Database execution error: " \o hist[r].execMessage
           /\ req[r].response.suggestion = "The SQL might have syntax errors"

\* C9: with the getAiSql that retries, a request whose generation failed is
\* answered with status 503 and AI service temporarily unavailable when the
\* last attempt met status 503, and never with the unclassified Internal
\* server error
C9_GenerationFailureCategory ==
    aiModule = "fixed" =>
        \A r \in Reqs :
            (req[r].pc = "done" /\ hist[r].genOutcome = "failed")
            => /\ hist[r].genStatus = 503
                    => /\ req[r].response.status = 503
                       /\ req[r].response.error = "AI service temporarily unavailable"
               /\ req[r].response.error # "Internal server error"

\* C10: when the execution gave zero rows the request is answered with the
\* fixed no-results message of its ai.js and the summarization service was
\* not called; without a row set the service is not called either, and
\* getAiSummary answers the fixed message when it is given no row set
C10_NoRowsNoSummarizerCall ==
    LET fixedMessage ==
            IF aiModule = "fixed"
            THEN "Query executed successfully but returned no results."
            ELSE "The query ran successfully, but returned no results."
        noRowSet == GetAiSummaryStart([NewRequest EXCEPT !.data = NoData], NewHistory)
    IN  /\ \A r \in Reqs :
              (hist[r].execOutcome = "ok" /\ Len(hist[r].execData.rows) = 0)
              => /\ hist[r].sumCalls = 0
                 /\ req[r].pc = "done"
                 /\ hist[r].execData.rowset
                      => /\ req[r].response.status = 200
                         /\ req[r].response.summary = fixedMessage
                         /\ req[r].response.data = RowData(<<>>)
        /\ noRowSet.rq.pc = "done" /\ noRowSet.h.sumCalls = 0
        /\ noRowSet.rq.response.summary = fixedMessage

\* C10: an execution returned zero rows and the request was answered
C10_Witness ==
    \E r \in Reqs :
        /\ hist[r].execOutcome = "ok" /\ hist[r].execData = RowData(<<>>)
        /\ req[r].pc = "done" /\ req[r].response.status = 200
        /\ "summarize" \in Stages(hist[r])

\* getAiSql has made at most maxRetries calls; it has returned a string or
\* thrown, never left without a value; the retrying getAiSql throws only
\* when its last attempt has failed
GetAiSqlBounded ==
    \A r \in Reqs :
        /\ hist[r].genCalls <= SqlMaxRetries
        /\ hist[r].genOutcome \in {"none", "ok", "failed"}
        /\ hist[r].genOutcome = "none" =>
                req[r].pc \in {"new", "gen_wait", "gen_delay"}
                \/ (req[r].pc = "done" /\ hist[r].genCalls = 0)
        /\ (hist[r].genOutcome = "failed" /\ aiModule = "fixed") =>
                hist[r].genCalls = SqlMaxRetries
        /\ hist[r].genOutcome # "none" => hist[r].genCalls >= 1

\* C11: getAiSql calls the generation service at most 3 times for a request,
\* it ends with a returned string or, after the last attempt failed, with a
\* thrown generation failure, never without a value; and when every service
\* call returns or fails and every timer fires, a getAiSql call that was
\* started does end
C11_GetAiSqlBoundedAndTerminates ==
    /\ []GetAiSqlBounded
    /\ \A r \in Reqs :
          (req[r].pc = "gen_wait") ~> (hist[r].genOutcome \in {"ok", "failed"})

\* C11: the retrying getAiSql has thrown after its third call, which came
\* after the waits of 2000 and 4000 ms
C11_Witness ==
    \E r \in Reqs :
        /\ aiModule = "fixed" /\ hist[r].genOutcome = "failed"
        /\ hist[r].genCalls = 3 /\ hist[r].waited = <<2000, 4000>>

\* C12: the retrying getAiSql calls the service again only after a wait, and
\* its waits are 2000 ms and then 4000 ms: the calls made are at most one
\* more than the waits made
C12_RetryOnlyAfter503 ==
    aiModule = "fixed" =>
        \A r \in Reqs :
            /\ IsPrefix(hist[r].waited, <<SqlRetryDelayMs, 2 * SqlRetryDelayMs>>)
            /\ hist[r].genCalls <= Len(hist[r].waited) + 1

\* C13: the retrying getAiSql never returns the empty string
C13_NeverReturnsEmpty ==
    aiModule = "fixed" =>
        \A r \in Reqs : hist[r].genOutcome = "ok" => hist[r].generated # ""

\* the cell of a record under a header of the sheet is empty
CellEmpty(r, header) == r[header] = Blank

\* a required field of the record is empty
MissingRequired(r) ==
    \E header \in {"Type", "Domain", "Class", "Instructor"} : CellEmpty(r, header)

\* the session date of the record cannot be parsed
UnparseableDate(r) == IsNull(normalizePstDate(r["Session Date"]))

\* C14: the run is never aborted, and each record the loop is past is counted
\* as inserted, updated or skipped
C14_NoRecordAbortsRun ==
    /\ etl.pc # "failed"
    /\ etl.pc \in {"running", "complete"}
          => etl.inserted + etl.updated + etl.skipped = etl.i - 1

\* C15: the step of the loader on a record with an empty required field or
\* an unparseable date counts the record as skipped and leaves the fact
\* table and the dimension tables as they were
C15_RejectedRecordWritesNothing ==
    [][ (/\ etl.pc = "running" /\ etl.i <= Len(sheet)
         /\ (MissingRequired(sheet[etl.i]) \/ UnparseableDate(sheet[etl.i])))
        => /\ facts' = facts /\ dims' = dims
           /\ etl'.skipped = etl.skipped + 1
           /\ etl'.inserted = etl.inserted /\ etl'.updated = etl.updated ]_vars

\* C16: skipped is the number of records so far with an empty required
\* field, badDate the number of records so far with the required fields and
\* an unparseable date, so that no record is in both counters
C16_CountersDisjoint ==
    etl.pc \in {"running", "complete"} =>
        /\ etl.skipped =
              Cardinality({ k \in 1..(etl.i - 1) : MissingRequired(sheet[k]) })
        /\ etl.badDate =
              Cardinality({ k \in 1..(etl.i - 1) :
                              ~MissingRequired(sheet[k]) /\ UnparseableDate(sheet[k]) })

\* the year and the month a date YYYY-MM-DD names
YearOfDate(date) == CHOOSE y \in 1900..2100 : Pad(y, 4) = SubSeq(date, 1, 4)
MonthOfDate(date) == CHOOSE k \in 1..12 : Pad(k, 2) = SubSeq(date, 6, 7)

\* C17: in every row of the fact table pst_month is in 1..12, pst_quarter is
\* floor((pst_month - 1) / 3) + 1 and in 1..4, pst_year and pst_month are
\* the year and the month of pst_date, and pst_month_start is the first day
\* of the month of pst_date
C17_CalendarConsistent ==
    \A j \in 1..Len(facts) :
        LET f == facts[j]
        IN  /\ f.pst_month \in 1..12
            /\ f.pst_quarter \in 1..4
            /\ f.pst_quarter = ((f.pst_month - 1) \div 3) + 1
            /\ \E k \in 1..12 : Pad(k, 2) = SubSeq(f.pst_date, 6, 7)
            /\ f.pst_year = YearOfDate(f.pst_date)
            /\ f.pst_month = MonthOfDate(f.pst_date)
            /\ f.pst_month_start = SubSeq(f.pst_date, 1, 8) \o "01"

\* C17: a second run has updated the row of a session of December on
\* conflict
C17_Witness ==
    /\ etl.run = 2 /\ etl.updated > 0
    /\ \E j \in 1..Len(facts) : facts[j].pst_month = 12 /\ facts[j].pst_quarter = 4

\* the rule of C18 on a number in hundredths: a value of at most 1 is
\* multiplied by 100, a larger value is kept
PctOfNumber(h) == IF h > 100 THEN h ELSE 100 * h

C19_RatedPctInRange ==
    \A j \in 1..Len(facts) :
        IsNull(facts[j].rated_pct)
        \/ (Val(facts[j].rated_pct) >= 0 /\ Val(facts[j].rated_pct) <= 10000)

\* the rows of the fact table a step of the loader on record r has written:
\* the row it appended, or else the row of the session of r
RowsWritten(r, before, after) ==
    IF Len(after) > Len(before) THEN { Len(after) }
    ELSE { j \in 1..Len(after) : after[j].topic_code = Some(T(r["Topic Code"])) }

\* C20: when the loader loads a record, the rated_pct it stores is the value
\* of the sheet when the sheet has one; otherwise responses / attendance x
\* 100 when both are there and attendance > 0; otherwise null
C20_RatedDerivedOnlyWhenAbsent ==
    [][ (/\ etl.pc = "running" /\ etl.i <= Len(sheet)
         /\ etl'.inserted + etl'.updated > etl.inserted + etl.updated)
        => LET r == sheet[etl.i]
               sheetRated == pct(r["% Rated"])
               responses == num(r["No of Student Responses"])
               attended == num(r["No of Students Attended"])
               derivable == /\ ~IsNull(responses) /\ ~IsNull(attended)
                            /\ Val(attended) > 0
           IN  /\ RowsWritten(r, facts, facts') # {}
               /\ \A j \in RowsWritten(r, facts, facts') :
                     facts'[j].rated_pct =
                        IF ~IsNull(sheetRated) THEN sheetRated
                        ELSE IF derivable
                        THEN Some((Val(responses) * 10000) \div Val(attended))
                        ELSE Null ]_vars

\* C20: the fact table holds a row whose rated_pct 50 was derived from 20
\* responses of 40 students, a row whose rated_pct 60 is the one of the
\* sheet although 10 responses of 20 students give 50, or a row left null
\* because no student attended
C20_Witness ==
    /\ \E j \in 1..Len(facts) :
          /\ facts[j].topic_code = Some("T3") /\ facts[j].rated_pct = Some(5000)
          /\ facts[j].responses = Some(2000) /\ facts[j].students_attended = Some(4000)
    /\ \E j \in 1..Len(facts) :
          \/ /\ IsNull(facts[j].topic_code) /\ facts[j].rated_pct = Some(6000)
             /\ facts[j].responses = Some(1000) /\ facts[j].students_attended = Some(2000)
          \/ /\ facts[j].topic_code = Some("T8") /\ IsNull(facts[j].rated_pct)
             /\ facts[j].students_attended = Some(0)

\* C21: a step of the loader that counts a record as updated leaves the
\* number of fact rows as it was and changes one row, the row of the
\* record's session: its average, responses, students_attended and rated_pct
\* become the values of the record, null included, and every other column
\* of the row and every other row stay as they were; and a record of a
\* session that has a row is counted as updated
C21_ConflictOverwritesMetricsOnly ==
    [][ (/\ etl.pc = "running" /\ etl.i <= Len(sheet) /\ etl'.pc = "running"
         /\ etl'.skipped = etl.skipped)
        => LET r == sheet[etl.i]
               c == ReadRecord(r)
               session == { j \in 1..Len(facts) :
                              facts[j].topic_code = Some(T(r["Topic Code"])) }
           IN  /\ session # {} => etl'.updated = etl.updated + 1
               /\ etl'.updated > etl.updated =>
                     /\ Len(facts') = Len(facts)
                     /\ Cardinality(session) = 1
                     /\ \A j \in 1..Len(facts) :
                           facts'[j] =
                              IF j \in session
                              THEN [facts[j] EXCEPT
                                      !.average = c.average,
                                      !.responses = c.responses,
                                      !.students_attended = c.attended,
                                      !.rated_pct = c.rated]
                              ELSE facts[j] ]_vars

\* C21: the row of a session loaded with metrics has been updated by a
\* record of the session without metrics: the metrics are null, the row is
\* the only one and keeps its session_id and its calendar fields
C21_Witness ==
    /\ etl.updated > 0 /\ Len(facts) = 1
    /\ facts[1].topic_code = Some("T1") /\ facts[1].session_id = 1
    /\ facts[1].pst_date = "2025-01-04" /\ facts[1].pst_quarter = 1
    /\ IsNull(facts[1].average) /\ IsNull(facts[1].responses)
    /\ IsNull(facts[1].students_attended) /\ IsNull(facts[1].rated_pct)
    /\ \E k \in 1..Len(sheet) : sheet[k] = RecFull

\* the rows of a dimension table with the name, and with the id
DimByName(tbl, name) == { d \in tbl.rows : d.name = name }
DimById(tbl, id) == { d \in tbl.rows : d.id = id }

\* each dimension table has one row per name and one per id, and every fact
\* row references a row of each dimension table
DimsWellFormed ==
    /\ \A t \in DimTables :
          \A d, e \in dims[t].rows : (d.name = e.name \/ d.id = e.id) => d = e
    /\ \A j \in 1..Len(facts) :
          /\ DimById(dims.dim_type, facts[j].type_id) # {}
          /\ DimById(dims.dim_domain, facts[j].domain_id) # {}
          /\ DimById(dims.dim_class, facts[j].class_id) # {}
          /\ DimById(dims.dim_instructor, facts[j].instructor_id) # {}

\* a step keeps every dimension row, so no row is removed and no name
\* changes its id; the fact row a load writes references, in each dimension,
\* the row of the record's name, the one that was there when there was one
DimsStable ==
    /\ \A t \in DimTables : dims[t].rows \subseteq dims'[t].rows
    /\ (/\ etl.pc = "running" /\ etl.i <= Len(sheet)
        /\ etl'.inserted + etl'.updated > etl.inserted + etl.updated)
       => LET r == sheet[etl.i]
          IN  \A j \in RowsWritten(r, facts, facts') :
                 /\ DimById(dims'.dim_type, facts'[j].type_id)
                       = DimByName(dims'.dim_type, T(r["Type"]))
                 /\ DimById(dims'.dim_domain, facts'[j].domain_id)
                       = DimByName(dims'.dim_domain, T(r["Domain"]))
                 /\ DimById(dims'.dim_class, facts'[j].class_id)
                       = DimByName(dims'.dim_class, T(r["Class"]))
                 /\ DimById(dims'.dim_instructor, facts'[j].instructor_id)
                       = DimByName(dims'.dim_instructor, T(r["Instructor"]))

\* C22: after any sequence of loads each dimension table has at most one
\* row per name, no load removes a dimension row or gives a name another
\* id, an upsert of a name that has a row gives the id of that row, and
\* every fact row references rows that exist
C22_DimensionsStable == []DimsWellFormed /\ [][DimsStable]_vars

\* C22: a second run has loaded records whose names had rows: the upserts
\* took values of the sequences and added no row, and the tables hold two
\* instructors
C22_Witness ==
    /\ etl.run = 2 /\ etl.pc = "complete" /\ etl.updated > 0
    /\ Cardinality(dims.dim_instructor.rows) = 2
    /\ dims.dim_instructor.seq > 2
    /\ Len(facts) >= 2

\* C23: normalizePstDate gives back the canonical text of a day of the
\* calendar, and a date it has returned is returned unchanged when it is
\* normalised again
C23_CanonicalDateUnchanged ==
    /\ (Len(vOut) >= 1 /\ vIn.t = "string" /\ IsCanonicalDate(vIn.s))
          => vOut[1] = Some(vIn.s)
    /\ Len(vOut) = 2 => vOut[2] = vOut[1]

\* C24: the retrying getAiSummary is called on to the service only for a
\* result with rows and at most 2 times for a request; no call follows a
\* call that succeeded, and the request is answered as soon as one has;
\* when both calls failed the request is answered with the success payload
\* whose summary is the fallback text with the number of rows of the result
C24_SummaryBoundedWithFallback ==
    aiModule = "fixed" =>
        \A r \in Reqs :
            LET h == hist[r]
                n == Len(h.execData.rows)
                \* the calls that have not failed: the pending one or the one
                \* that succeeded
                notFailed == h.sumCalls - h.sumFailed
            IN  /\ h.sumCalls <= 2
                /\ h.sumCalls > 0 => (h.execData.rowset /\ n > 0)
                /\ req[r].pc = "sum_wait" => notFailed = 1 /\ h.sumCalls >= 1
                /\ req[r].pc # "sum_wait" => notFailed \in {0, 1}
                /\ (req[r].pc # "sum_wait" /\ notFailed = 1) =>
                        /\ req[r].pc = "done" /\ req[r].response.status = 200
                        /\ req[r].response.summary # ""
                /\ (req[r].pc = "done" /\ h.sumCalls > 0 /\ notFailed = 0) =>
                        /\ h.sumCalls = 2
                        /\ req[r].response.status = 200
                        /\ req[r].response.data = h.execData
                        /\ req[r].response.summary =
                              "Query executed successfully and returned " \o ToString(n)
                              \o " result(s). Please review the data below."
                /\ req[r].pc = "sum_delay" => (h.sumCalls = 1 /\ notFailed = 0)

\* C24: both calls of the retrying getAiSummary failed and the request was
\* answered with the fallback summary
C24_Witness ==
    \E r \in Reqs :
        /\ aiModule = "fixed" /\ req[r].pc = "done"
        /\ hist[r].sumCalls = 2 /\ hist[r].sumFailed = 2
        /\ req[r].response.status = 200
        /\ req[r].response.summary =
              "Query executed successfully and returned 1 result(s). Please review the data below."

\* the sql of a success payload is the text generated for the request,
\* accepted by the validator and executed for it, and its data is what that
\* execution returned
OwnSqlAndData ==
    \A r \in Reqs :
        (req[r].pc = "done" /\ req[r].response.status = 200)
        => /\ hist[r].genOutcome = "ok" /\ hist[r].valOutcome = "ok"
           /\ hist[r].execOutcome = "ok"
           /\ req[r].response.sql = hist[r].generated
           /\ req[r].response.sql = hist[r].execSql
           /\ isValidSqlQuery(JsString(req[r].response.sql))
           /\ req[r].response.data = hist[r].execData

\* a step of one request leaves the locals and the record of every other
\* request as they were, and an answered request stays as it is
OthersUntouched ==
    \A r \in Reqs :
        /\ (req'[r] # req[r] \/ hist'[r] # hist[r])
              => \A q \in Reqs \ {r} : req'[q] = req[q] /\ hist'[q] = hist[q]
        /\ req[r].pc = "done" => (req'[r] = req[r] /\ hist'[r] = hist[r])

\* C25: under every interleaving of the requests a success payload carries
\* the request's own generated, validated and executed sql and the rows its
\* execution returned, and no step of a request changes another request
C25_RequestsIndependent == []OwnSqlAndData /\ [][OthersUntouched]_vars

\* C25: two requests were answered with success payloads that carry
\* different statements
C25_Witness ==
    \E r, q \in Reqs :
        /\ req[r].pc = "done" /\ req[r].response.status = 200
        /\ req[q].pc = "done" /\ req[q].response.status = 200
        /\ req[r].response.sql = SqlSelect /\ req[q].response.sql = SqlDeleteCte
        /\ Len(req[r].response.data.rows) # Len(req[q].response.data.rows)

\* record k of the sheet is loaded: it has its required fields and a date
LoadedRecord(k) == ~MissingRequired(sheet[k]) /\ ~UnparseableDate(sheet[k])

\* record k of the sheet, when it is loaded in the current run, meets a fact
\* row of its session: it has a topic code, and the run is a later run or
\* an earlier record of the sheet is a loaded record of the same session
HitsExistingRow(k) ==
    /\ sheet[k]["Topic Code"] # Blank
    /\ \/ etl.run >= 2
       \/ \E e \in 1..(k - 1) :
             LoadedRecord(e) /\ sheet[e]["Topic Code"] = sheet[k]["Topic Code"]

\* C26: when a run is complete, inserted + updated + skipped is the number
\* of records of the sheet, badDate is at most skipped, inserted is the
\* number of fact rows the run added and updated is the number of loaded
\* records that met a fact row of their session
C26_ReportCountsAddUp ==
    etl.pc = "complete" =>
        /\ etl.inserted + etl.updated + etl.skipped = Len(sheet)
        /\ etl.badDate <= etl.skipped
        /\ etl.inserted = Len(facts) - etl.rowsAtStart
        /\ etl.updated =
              Cardinality({ k \in 1..Len(sheet) : LoadedRecord(k) /\ HitsExistingRow(k) })

\* C26: a run on a table that had rows is complete and has counted a record
\* as inserted and a record as updated
C26_Witness ==
    /\ etl.pc = "complete" /\ etl.run = 2 /\ etl.rowsAtStart > 0
    /\ etl.inserted = 1 /\ etl.updated = 1 /\ Len(sheet) = 2

=============================================================================
